---- MODULE Spec2Model ----
(***************************************************************************)
(* Record comparison scripts of LegacyModernizationPoC:                    *)
(*   detailed_comparison.py      read_records, parse_record,               *)
(*                               compare_fields, analyze_primary_record,   *)
(*                               main                                      *)
(*   shift_analysis.py           find_shift_point                          *)
(*   field_accuracy_analysis.py  analyze_binary_accuracy                   *)
(*   field_analysis.py           analyze_records                           *)
(* Each script is a sequential program; `script` says which one runs and   *)
(* `pc` is its position.  Loops over the range / window / offset tables    *)
(* advance one table entry per step.                                       *)
(***************************************************************************)
EXTENDS Integers, Sequences, FiniteSets, TLC

VARIABLES
  script,              \* which script is running
  pc,                  \* its position
  entry,               \* detailed_comparison: the function that was called
  our_fields,          \* detailed_comparison: actual field list
  expected_fields,     \* detailed_comparison / shift_analysis: expected field list
  comparison,          \* detailed_comparison: dict returned by compare_fields
  critical_mismatches, \* analyze_primary_record: mismatches among the first 50
  range_idx,           \* analyze_primary_record: index of the next entry of ranges
  range_stats,         \* analyze_primary_record: the loop variables after the last range
  range_report,        \* analyze_primary_record: the range lines printed so far
  generated_fields,    \* shift_analysis: generated field list
  first_diff,          \* shift_analysis: 1-based first difference, or None
  offset,              \* shift_analysis: next offset of the probe loop
  shift_report,        \* shift_analysis: lines printed by the script
  actual_file,         \* field_accuracy_analysis: Output/69172p.asc on disk
  expected_file,       \* field_accuracy_analysis: the expected .asc on disk
  actual_data,         \* field_accuracy_analysis: bytes read
  expected_data,       \* field_accuracy_analysis: bytes read
  field_idx,           \* field_accuracy_analysis: index of the next key field
  field_report,        \* field_accuracy_analysis: per-window lines printed
  total_analyzed,      \* field_accuracy_analysis
  total_matching,      \* field_accuracy_analysis
  overall_accuracy,    \* field_accuracy_analysis
  actual_records,      \* field_accuracy_analysis
  actual_record_size,  \* field_accuracy_analysis
  bin_report,          \* field_accuracy_analysis: other lines printed
  differences,         \* field_analysis: the differences collected for the record
  analysis_report,     \* field_analysis: lines printed for the record
  our_file,            \* detailed_comparison.main: our output file on disk
  expected_p_file,     \* detailed_comparison.main: expected_p.txt on disk
  expected_content,    \* detailed_comparison.main: stripped text of expected_p.txt
  our_records,         \* detailed_comparison.main: what read_records returned
  our_primary,         \* detailed_comparison.main: the first P record, or None
  main_report          \* detailed_comparison.main: lines printed by main

textVars == <<entry, our_fields, comparison, critical_mismatches,
              range_idx, range_stats, range_report>>
shiftVars == <<generated_fields, first_diff, offset, shift_report>>
binVars == <<actual_file, expected_file, actual_data, expected_data, field_idx,
             field_report, total_analyzed, total_matching, overall_accuracy,
             actual_records, actual_record_size, bin_report>>
analysisVars == <<differences, analysis_report>>
mainVars == <<our_file, expected_p_file, expected_content, our_records,
              our_primary, main_report>>
vars == <<script, pc, expected_fields, textVars, shiftVars, binVars,
          analysisVars, mainVars>>

\* Python's None, for a variable not yet assigned
None == "None"
\* first_diff = None: first_diff is a 1-based index once set, and `if first_diff`
\* tests its truth, so None is kept as the falsy 0
NoDiff == 0

(***************************************************************************)
(* Bounds of the model and the inputs drawn                                *)
(***************************************************************************)
\* field lists are enumerated in full up to this length
MaxShort == 2
\* longer field lists are MaxHead arbitrary fields, a run of one repeated
\* value, and an arbitrary last field
MaxHead == 1
\* field lists of shift_analysis are enumerated in full up to this length
MaxShiftLen == 5
\* byte buffers carry this many arbitrary leading bytes before a uniform run
MaxByteHead == 2
\* field lists of field_analysis are enumerated in full up to this length
MaxAnalysisLen == 4
\* record texts of detailed_comparison.main are enumerated up to this many
\* characters, bare and with a blank on both sides, in files of up to
\* MaxLines lines
MaxLineLen == 3
MaxLines == 1

FieldVals == {"x", "y"}
LongCounts == {20, 21, 533}
ByteVals == {1, 255}
LongSizes == {10, 605, 1962, 9999, 10000, 10001}

Min2(a, b) == IF a <= b THEN a ELSE b
Max2(a, b) == IF a >= b THEN a ELSE b
Min3(a, b, c) == Min2(a, Min2(b, c))

Tuples(S, n) == [1..n -> S]

\* all field lists of length 0..MaxShort, and the patterned long ones
ShortFieldLists == UNION {Tuples(FieldVals, n) : n \in 0..MaxShort}
LongFieldLists ==
  {[i \in 1..n |-> IF i <= MaxHead THEN h[i] ELSE IF i = n THEN l ELSE f] :
     n \in {c \in LongCounts : c > MaxHead + 1}, h \in Tuples(FieldVals, MaxHead),
     f \in FieldVals, l \in FieldVals}
FieldLists == ShortFieldLists \cup LongFieldLists
\* str.split never returns an empty list
SplitFieldLists == {s \in FieldLists : Len(s) >= 1}

(***************************************************************************)
(* detailed_comparison.py                                                  *)
(***************************************************************************)
\* a percentage m / n * 100 kept exact as numerator and denominator
Pct(m, n) == [num |-> m * 100, den |-> n]

\* the dict appended to comparison['mismatches'] for 0-based index i
mismatch_entry_zero_based(our, exp, i) ==
  [field_index |-> i, our_value |-> our[i + 1], expected_value |-> exp[i + 1]]
mismatch_entry_same_value(our, exp, i) ==
  [field_index |-> i + 1, our_value |-> our[i + 1], expected_value |-> our[i + 1]]
mismatch_entry(our, exp, i) ==
  [field_index |-> i + 1, our_value |-> our[i + 1], expected_value |-> exp[i + 1]]

\* A loop  for i in range(lo, hi)  over field indices is evaluated as the
\* result of its body on i = lo, ..., hi-1 in increasing order: a run of one
\* index is the body's effect, and a longer run is the effect of its first
\* half followed by that of its second half (counts add up, lists are
\* appended in order).  This keeps the evaluation shallow for records of
\* several hundred fields.
Mid(lo, hi) == (lo + hi) \div 2

\* for i in range(min(len(our_fields), len(expected_fields))):
\*     matches += 1 if equal, else mismatches.append({...})
RECURSIVE compare_common(_, _, _, _)
compare_common(our, exp, lo, hi) ==
  IF lo >= hi THEN [matches |-> 0, mismatches |-> << >>]
  ELSE IF hi = lo + 1
       THEN IF our[lo + 1] = exp[lo + 1]
            THEN [matches |-> 1, mismatches |-> << >>]
            ELSE [matches |-> 0, mismatches |-> <<mismatch_entry(our, exp, lo)>>]
  ELSE LET first == compare_common(our, exp, lo, Mid(lo, hi))
           second == compare_common(our, exp, Mid(lo, hi), hi)
       IN [matches |-> first.matches + second.matches,
           mismatches |-> first.mismatches \o second.mismatches]

\* for i in range(len(our_fields), len(expected_fields)): append missing field
missing_start_next(our) == Len(our) + 1
missing_start(our) == Len(our)
RECURSIVE missing_loop(_, _, _)
missing_loop(exp, lo, hi) ==
  IF lo >= hi THEN << >>
  ELSE IF hi = lo + 1
       THEN <<[field_index |-> lo + 1, expected_value |-> exp[lo + 1]]>>
  ELSE missing_loop(exp, lo, Mid(lo, hi)) \o missing_loop(exp, Mid(lo, hi), hi)

\* for i in range(len(expected_fields), len(our_fields)): append extra field
RECURSIVE extra_loop(_, _, _)
extra_loop(our, lo, hi) ==
  IF lo >= hi THEN << >>
  ELSE IF hi = lo + 1
       THEN <<[field_index |-> lo + 1, our_value |-> our[lo + 1]]>>
  ELSE extra_loop(our, lo, Mid(lo, hi)) \o extra_loop(our, Mid(lo, hi), hi)

compare_fields(our, exp, record_type) ==
  LET common == compare_common(our, exp, 0, Min2(Len(our), Len(exp)))
  IN [record_type |-> record_type,
      our_field_count |-> Len(our),
      expected_field_count |-> Len(exp),
      matches |-> common.matches,
      mismatches |-> common.mismatches,
      missing_fields |-> IF Len(exp) > Len(our)
                         THEN missing_loop(exp, missing_start(our), Len(exp))
                         ELSE << >>,
      extra_fields |-> IF Len(our) > Len(exp)
                       THEN extra_loop(our, Len(exp), Len(our))
                       ELSE << >>]

\* for i in range(min(50, len(our_fields), len(expected_fields))):
\*     if our_fields[i] != expected_fields[i]: critical_mismatches += 1
RECURSIVE critical_loop(_, _, _, _)
critical_loop(our, exp, lo, hi) ==
  IF lo >= hi THEN 0
  ELSE IF hi = lo + 1 THEN (IF our[lo + 1] # exp[lo + 1] THEN 1 ELSE 0)
  ELSE critical_loop(our, exp, lo, Mid(lo, hi)) + critical_loop(our, exp, Mid(lo, hi), hi)

ranges ==
  << <<1, 20, "Header and Identifiers">>,
     <<21, 50, "Address and Contact">>,
     <<51, 100, "Financial Data 1">>,
     <<101, 150, "Financial Data 2">>,
     <<151, 200, "System Fields 1">>,
     <<201, 300, "Extended Fields">>,
     <<301, 400, "Compliance Fields">>,
     <<401, 500, "Additional Fields">>,
     <<501, 533, "Trailing Fields">> >>

\* the stop of range(start-1, min(end, len(our_fields), len(expected_fields)))
range_stop_exclusive(end, our, exp) == Min3(end, Len(our), Len(exp)) - 1
range_stop(end, our, exp) == Min3(end, Len(our), Len(exp))

\* for i in range(start-1, stop): count matches and mismatches;
\* compared lists the 1-based ordinals i+1 the loop body visited
RECURSIVE range_loop(_, _, _, _)
range_loop(our, exp, lo, hi) ==
  IF lo >= hi THEN [range_matches |-> 0, range_mismatches |-> 0, compared |-> << >>]
  ELSE IF hi = lo + 1
       THEN IF our[lo + 1] = exp[lo + 1]
            THEN [range_matches |-> 1, range_mismatches |-> 0, compared |-> <<lo + 1>>]
            ELSE [range_matches |-> 0, range_mismatches |-> 1, compared |-> <<lo + 1>>]
  ELSE LET first == range_loop(our, exp, lo, Mid(lo, hi))
           second == range_loop(our, exp, Mid(lo, hi), hi)
       IN [range_matches |-> first.range_matches + second.range_matches,
           range_mismatches |-> first.range_mismatches + second.range_mismatches,
           compared |-> first.compared \o second.compared]

\* total_range = min(end, len(our_fields), len(expected_fields)) - (start-1)
total_range_of(start, end, our, exp) == range_stop(end, our, exp) - (start - 1)

\* if total_range > 0: the line is printed
range_printed_always(total_range) == TRUE
range_printed(total_range) == total_range > 0

TextIdle ==
  /\ entry = None /\ our_fields = << >> /\ comparison = None
  /\ critical_mismatches = 0 /\ range_idx = 0
  /\ range_stats = << >> /\ range_report = << >>

InitText ==
  /\ script = "detailed_comparison"
  /\ pc = "compare_fields"
  /\ our_fields \in FieldLists
  /\ expected_fields \in FieldLists
  \* analyze_primary_record passes on what parse_record returns, which is
  \* never an empty list; other pairs reach compare_fields by a direct call
  /\ entry = IF our_fields \in SplitFieldLists /\ expected_fields \in SplitFieldLists
             THEN "analyze_primary_record" ELSE "compare_fields"
  /\ comparison = None
  /\ critical_mismatches = 0
  /\ range_idx = 0
  /\ range_stats = << >>
  /\ range_report = << >>

\* comparison = compare_fields(our_fields, expected_fields, 'P')
CompareFields ==
  /\ script = "detailed_comparison" /\ pc = "compare_fields"
  /\ comparison' = compare_fields(our_fields, expected_fields, "P")
  /\ pc' = IF entry = "compare_fields" THEN "done" ELSE "critical"
  /\ UNCHANGED <<script, entry, our_fields, expected_fields, critical_mismatches,
                 range_idx, range_stats, range_report, shiftVars, binVars,
                 analysisVars, mainVars>>

\* the first-50-fields loop of analyze_primary_record
CriticalFields ==
  /\ script = "detailed_comparison" /\ pc = "critical"
  /\ critical_mismatches' = critical_loop(our_fields, expected_fields, 0,
                              Min3(50, Len(our_fields), Len(expected_fields)))
  /\ range_idx' = 1
  /\ pc' = "ranges"
  /\ UNCHANGED <<script, entry, our_fields, expected_fields, comparison,
                 range_stats, range_report, shiftVars, binVars,
                 analysisVars, mainVars>>

\* one iteration of  for start, end, description in ranges
RangeStep ==
  /\ script = "detailed_comparison" /\ pc = "ranges"
  /\ range_idx <= Len(ranges)
  /\ LET start == ranges[range_idx][1]
         end == ranges[range_idx][2]
         description == ranges[range_idx][3]
         r == range_loop(our_fields, expected_fields, start - 1,
                         range_stop(end, our_fields, expected_fields))
         total_range == total_range_of(start, end, our_fields, expected_fields)
     IN /\ range_stats' =
             <<[start |-> start, end |-> end,
                range_matches |-> r.range_matches,
                range_mismatches |-> r.range_mismatches,
                compared |-> r.compared,
                total_range |-> total_range]>>
        /\ range_report' =
             IF range_printed(total_range)
             THEN Append(range_report,
                    [description |-> description, start |-> start, end |-> end,
                     range_matches |-> r.range_matches,
                     total_range |-> total_range,
                     match_pct |-> Pct(r.range_matches, total_range)])
             ELSE range_report
  /\ range_idx' = range_idx + 1
  /\ UNCHANGED <<script, pc, entry, our_fields, expected_fields, comparison,
                 critical_mismatches, shiftVars, binVars, analysisVars, mainVars>>

\* return comparison
ReturnComparison ==
  /\ script = "detailed_comparison" /\ pc = "ranges"
  /\ range_idx > Len(ranges)
  /\ pc' = IF entry = "main" THEN "summary" ELSE "done"
  /\ UNCHANGED <<script, expected_fields, textVars, shiftVars, binVars,
                 analysisVars, mainVars>>

(***************************************************************************)
(* shift_analysis.py                                                       *)
(***************************************************************************)
\* generated_record.split('|') and expected_record.split('|'): never empty
ShiftFieldLists == UNION {Tuples(FieldVals, n) : n \in 1..MaxShiftLen}

\* for i in range(min(len(generated_fields), len(expected_fields))):
\*     if generated_fields[i] != expected_fields[i]: first_diff = i + 1; break
RECURSIVE first_diff_loop(_, _, _)
first_diff_loop(gen, exp, i) ==
  IF i >= Min2(Len(gen), Len(exp)) THEN NoDiff
  ELSE IF gen[i + 1] # exp[i + 1] THEN i + 1
       ELSE first_diff_loop(gen, exp, i + 1)

\* the rows of CONTEXT AROUND FIRST DIFFERENCE, for i in range(start, end)
context_rows(gen, exp, fd) ==
  LET start == Max2(0, fd - 5)
      end == Min2(Len(gen), fd + 10)
  IN [k \in 1..(end - start) |->
        LET i == start + k - 1
            gen_val == IF i < Len(gen) THEN gen[i + 1] ELSE "MISSING"
            exp_val == IF i < Len(exp) THEN exp[i + 1] ELSE "MISSING"
        IN [kind |-> "context", field |-> i + 1, gen_val |-> gen_val,
            exp_val |-> exp_val, diff |-> gen_val # exp_val]]

\* if 0 <= check_idx < len(expected_fields):
\*     if generated_fields[first_diff - 1] == expected_fields[check_idx]:
probe_hit_no_lower_bound(gen, exp, fd, off) ==
  LET check_idx == fd - 1 + off
  IN /\ check_idx < Len(exp)
     /\ gen[fd] = exp[(check_idx % Len(exp)) + 1]
probe_hit(gen, exp, fd, off) ==
  LET check_idx == fd - 1 + off
  IN /\ 0 <= check_idx /\ check_idx < Len(exp)
     /\ gen[fd] = exp[check_idx + 1]

ShiftIdle ==
  /\ generated_fields = << >> /\ first_diff = NoDiff /\ offset = 0
  /\ shift_report = << >>

InitShift ==
  /\ script = "shift_analysis"
  /\ pc = "first_diff"
  /\ generated_fields \in ShiftFieldLists
  /\ expected_fields \in ShiftFieldLists
  /\ first_diff = NoDiff
  /\ offset = 0
  /\ shift_report = << >>

\* the first-difference loop and the branch on it
FindFirstDiff ==
  /\ script = "shift_analysis" /\ pc = "first_diff"
  /\ LET fd == first_diff_loop(generated_fields, expected_fields, 0)
     IN /\ first_diff' = fd
        /\ IF fd # NoDiff
           THEN /\ shift_report' =
                     <<[kind |-> "first_difference", field |-> fd]>>
                     \o context_rows(generated_fields, expected_fields, fd)
                /\ offset' = -3
                /\ pc' = "probe"
           ELSE /\ shift_report' = <<[kind |-> "all_match"]>>
                /\ offset' = offset
                /\ pc' = "done"
  /\ UNCHANGED <<script, generated_fields, expected_fields, textVars, binVars,
                 analysisVars, mainVars>>

\* one iteration of  for offset in range(-3, 4)
ProbeStep ==
  /\ script = "shift_analysis" /\ pc = "probe"
  /\ offset < 4
  /\ shift_report' =
       IF offset # 0 /\ probe_hit(generated_fields, expected_fields, first_diff, offset)
       THEN Append(shift_report,
              [kind |-> "shift", generated_field |-> first_diff,
               expected_field |-> first_diff - 1 + offset + 1, offset |-> offset])
       ELSE shift_report
  /\ offset' = offset + 1
  /\ UNCHANGED <<script, pc, generated_fields, expected_fields, first_diff,
                 textVars, binVars, analysisVars, mainVars>>

\* the probe loop is exhausted
ProbeEnd ==
  /\ script = "shift_analysis" /\ pc = "probe"
  /\ offset >= 4
  /\ pc' = "done"
  /\ UNCHANGED <<script, expected_fields, shiftVars, textVars, binVars,
                 analysisVars, mainVars>>

(***************************************************************************)
(* field_accuracy_analysis.py                                              *)
(***************************************************************************)
\* A byte buffer is kept as its length, its leading bytes and the byte that
\* fills the rest; NoFile is a path that does not exist.
NoFile == [exists |-> FALSE]
ShortBuffers ==
  {[len |-> Len(h), head |-> h, fill |-> 0] :
     h \in UNION {Tuples(ByteVals, n) : n \in 0..MaxByteHead}}
LongBuffers ==
  {[len |-> n, head |-> h, fill |-> f] :
     n \in {c \in LongSizes : c > MaxByteHead}, h \in Tuples(ByteVals, MaxByteHead),
     f \in ByteVals}
Buffers == ShortBuffers \cup LongBuffers

\* data[i], 0-based, for 0 <= i < len(data)
ByteAt(data, i) == IF i < Len(data.head) THEN data.head[i + 1] ELSE data.fill

\* data[start:end] for 0 <= start <= end, as a sequence of bytes
Slice(data, start, end) ==
  LET stop == Min2(end, data.len)
  IN IF stop <= start THEN << >>
     ELSE [k \in 1..(stop - start) |-> ByteAt(data, start + k - 1)]

key_fields ==
  << <<0, 3, "Client Number (503)">>,
     <<6, 12, "Binary Control Pattern">>,
     <<12, 23, "Account Number Field">>,
     <<23, 32, "Packed Decimal Pattern">>,
     <<35, 51, "Name Sample Message">>,
     <<600, 608, "Financial Field 1 (PrincipalBalance)">>,
     <<620, 628, "Financial Field 2 (PaymentAmount)">>,
     <<1950, 1955, "TranKey Field">>,
     <<1960, 1963, "TranCount Field">> >>

expected_records == 5
expected_record_size == 2000

\* if start < len(actual_data) and start < len(expected_data):
window_in_bounds_actual_only(start, actual, expected) == start < actual.len
window_in_bounds(start, actual, expected) ==
  start < actual.len /\ start < expected.len

\* field_length = min(len(actual_field), len(expected_field))
field_length_of(actual_field, expected_field) ==
  Min2(Len(actual_field), Len(expected_field))

\* sum(1 for i in range(field_length) if actual_field[i] == expected_field[i])
RECURSIVE count_matches_skip_first(_, _, _, _)
count_matches_skip_first(actual_field, expected_field, i, field_length) ==
  IF i + 1 >= field_length THEN 0
  ELSE (IF actual_field[i + 2] = expected_field[i + 2] THEN 1 ELSE 0)
       + count_matches_skip_first(actual_field, expected_field, i + 1, field_length)
RECURSIVE count_matches(_, _, _, _)
count_matches(actual_field, expected_field, i, field_length) ==
  IF i >= field_length THEN 0
  ELSE (IF actual_field[i + 1] = expected_field[i + 1] THEN 1 ELSE 0)
       + count_matches(actual_field, expected_field, i + 1, field_length)

\* (matches / field_length * 100) if field_length > 0 else 0
accuracy_of(matches, field_length) ==
  IF field_length > 0 THEN Pct(matches, field_length) ELSE [num |-> 0, den |-> 1]

\* accuracy == 100, accuracy >= k, accuracy < k on the exact quotient; the
\* float m / n * 100 is 100.0 exactly when m = n
PctEq(a, k) == a.num = k * a.den
PctGe(a, k) == a.num >= k * a.den

\* total_analyzed += field_length; total_matching += matches
add_totals_swapped(totals, field_length, matches) ==
  [analyzed |-> totals.analyzed + matches,
   matching |-> totals.matching + field_length]
add_totals(totals, field_length, matches) ==
  [analyzed |-> totals.analyzed + field_length,
   matching |-> totals.matching + matches]

\* actual_records = len(actual_data) // expected_record_size
records_of_rounded_up(data) ==
  (data.len + expected_record_size - 1) \div expected_record_size
records_of(data) == data.len \div expected_record_size

\* actual_record_size = len(actual_data) // actual_records if actual_records > 0 else 0
record_size_of(data, n_records) ==
  IF n_records > 0 THEN data.len \div n_records ELSE 0

BinIdle ==
  /\ actual_file = NoFile /\ expected_file = NoFile
  /\ actual_data = None /\ expected_data = None
  /\ field_idx = 0 /\ field_report = << >>
  /\ total_analyzed = 0 /\ total_matching = 0
  /\ overall_accuracy = None
  /\ actual_records = None /\ actual_record_size = None
  /\ bin_report = << >>

InitBinary ==
  /\ script = "field_accuracy_analysis"
  /\ pc = "read"
  /\ actual_file \in Buffers \cup {NoFile}
  /\ expected_file \in Buffers \cup {NoFile}
  /\ actual_data = None /\ expected_data = None
  /\ field_idx = 0 /\ field_report = << >>
  /\ total_analyzed = 0 /\ total_matching = 0
  /\ overall_accuracy = None
  /\ actual_records = None /\ actual_record_size = None
  /\ bin_report = << >>

\* try: read both files / except FileNotFoundError: return
ReadFiles ==
  /\ script = "field_accuracy_analysis" /\ pc = "read"
  /\ IF actual_file = NoFile \/ expected_file = NoFile
     THEN /\ bin_report' = Append(bin_report, [kind |-> "file_not_found"])
          /\ pc' = "done"
          /\ UNCHANGED <<actual_data, expected_data, field_idx, total_analyzed,
                         total_matching>>
     ELSE /\ actual_data' = actual_file
          /\ expected_data' = expected_file
          /\ bin_report' = Append(bin_report,
               [kind |-> "file_size", actual |-> actual_file.len,
                expected |-> expected_file.len,
                size_match |-> actual_file.len = expected_file.len])
          /\ total_analyzed' = 0
          /\ total_matching' = 0
          /\ field_idx' = 1
          /\ pc' = "fields"
  /\ UNCHANGED <<script, actual_file, expected_file, field_report, overall_accuracy,
                 actual_records, actual_record_size, expected_fields, textVars,
                 shiftVars, analysisVars, mainVars>>

\* one iteration of  for start, end, description in key_fields
FieldStep ==
  /\ script = "field_accuracy_analysis" /\ pc = "fields"
  /\ field_idx <= Len(key_fields)
  /\ LET start == key_fields[field_idx][1]
         end == key_fields[field_idx][2]
         description == key_fields[field_idx][3]
         actual_field == Slice(actual_data, start, end)
         expected_field == Slice(expected_data, start, end)
         field_length == field_length_of(actual_field, expected_field)
         matches == count_matches(actual_field, expected_field, 0, field_length)
         accuracy == accuracy_of(matches, field_length)
         totals == add_totals([analyzed |-> total_analyzed, matching |-> total_matching],
                              field_length, matches)
     IN IF window_in_bounds(start, actual_data, expected_data)
        THEN /\ total_analyzed' = totals.analyzed
             /\ total_matching' = totals.matching
             /\ field_report' = Append(field_report,
                  [description |-> description, start |-> start, end |-> end,
                   field_length |-> field_length, matches |-> matches,
                   accuracy |-> accuracy,
                   status |-> IF PctEq(accuracy, 100) THEN "MATCH" ELSE "PERCENT",
                   hex |-> /\ ~PctGe(accuracy, 100)
                           /\ description \in {"Client Number (503)",
                                "Binary Control Pattern", "Name Sample Message"}])
        ELSE UNCHANGED <<total_analyzed, total_matching, field_report>>
  /\ field_idx' = field_idx + 1
  /\ UNCHANGED <<script, pc, actual_file, expected_file, actual_data, expected_data,
                 overall_accuracy, actual_records, actual_record_size, bin_report,
                 expected_fields, textVars, shiftVars, analysisVars, mainVars>>

\* Overall Key Field Accuracy
OverallAccuracy ==
  /\ script = "field_accuracy_analysis" /\ pc = "fields"
  /\ field_idx > Len(key_fields)
  /\ overall_accuracy' = accuracy_of(total_matching, total_analyzed)
  /\ pc' = "structure"
  /\ UNCHANGED <<script, actual_file, expected_file, actual_data, expected_data,
                 field_idx, field_report, total_analyzed, total_matching,
                 actual_records, actual_record_size, bin_report,
                 expected_fields, textVars, shiftVars, analysisVars, mainVars>>

\* Record Structure Verification and ENHANCEMENT ASSESSMENT; return overall_accuracy
RecordStructure ==
  /\ script = "field_accuracy_analysis" /\ pc = "structure"
  /\ LET n_records == records_of(actual_data)
         size == record_size_of(actual_data, n_records)
     IN /\ actual_records' = n_records
        /\ actual_record_size' = size
        /\ bin_report' = bin_report \o
             <<[kind |-> "records", ok |-> n_records = expected_records],
               [kind |-> "record_size", ok |-> size = expected_record_size]>>
             \o (IF actual_data.len = expected_data.len
                 THEN <<[kind |-> "file_size_perfect"]>> ELSE << >>)
             \o (IF n_records = expected_records /\ size = expected_record_size
                 THEN <<[kind |-> "record_structure_perfect"]>> ELSE << >>)
             \o <<[kind |-> IF PctGe(overall_accuracy, 95) THEN "target_achieved"
                            ELSE IF PctGe(overall_accuracy, 80) THEN "significant_progress"
                            ELSE IF PctGe(overall_accuracy, 60) THEN "good_progress"
                            ELSE "needs_refinement"]>>
  /\ pc' = "done"
  /\ UNCHANGED <<script, actual_file, expected_file, actual_data, expected_data,
                 field_idx, field_report, total_analyzed, total_matching,
                 overall_accuracy, expected_fields, textVars, shiftVars,
                 analysisVars, mainVars>>

(***************************************************************************)
(* field_analysis.py: the body of the loop over record pairs               *)
(***************************************************************************)
\* the field lists of one record pair; a field may hold any text, the word
\* MISSING included
AnalysisVals == {"x", "MISSING"}
AnalysisFieldLists == UNION {Tuples(AnalysisVals, n) : n \in 1..MaxAnalysisLen}

\* gen_field = generated_fields[field_idx] if field_idx < len(generated_fields)
\* else "MISSING"   (and the same for exp_field); i is the loop's field_idx
field_or_missing(fields, i) ==
  IF i < Len(fields) THEN fields[i + 1] ELSE "MISSING"

\* for i in range(max_fields):
\*     if gen_field != exp_field: differences.append({...})
RECURSIVE differences_loop(_, _, _, _)
differences_loop(gen, exp, i, max_fields) ==
  IF i >= max_fields THEN << >>
  ELSE LET gen_field == field_or_missing(gen, i)
           exp_field == field_or_missing(exp, i)
       IN (IF gen_field # exp_field
           THEN <<[field |-> i + 1, generated |-> gen_field,
                   expected |-> exp_field]>>
           ELSE << >>)
          \o differences_loop(gen, exp, i + 1, max_fields)

AnalysisIdle == differences = << >> /\ analysis_report = << >>

InitAnalysis ==
  /\ script = "field_analysis"
  /\ pc = "compare_all"
  /\ generated_fields \in AnalysisFieldLists
  /\ expected_fields \in AnalysisFieldLists
  /\ first_diff = NoDiff /\ offset = 0 /\ shift_report = << >>
  /\ differences = << >>
  /\ analysis_report = << >>

\* Compare ALL fields
CompareAllFields ==
  /\ script = "field_analysis" /\ pc = "compare_all"
  /\ differences' = differences_loop(generated_fields, expected_fields, 0,
                      Max2(Len(generated_fields), Len(expected_fields)))
  /\ analysis_report' =
       <<[kind |-> "field_counts", generated |-> Len(generated_fields),
          expected |-> Len(expected_fields)]>>
  /\ pc' = "report"
  /\ UNCHANGED <<script, expected_fields, shiftVars, textVars, binVars, mainVars>>

\* if differences: the first 20 and the count of the rest; else: all match
ReportDifferences ==
  /\ script = "field_analysis" /\ pc = "report"
  /\ analysis_report' =
       IF differences # << >>
       THEN analysis_report
            \o <<[kind |-> "differences_found",
                  shown |-> SubSeq(differences, 1, Min2(20, Len(differences)))]>>
            \o (IF Len(differences) > 20
                THEN <<[kind |-> "more_differences", more |-> Len(differences) - 20]>>
                ELSE << >>)
       ELSE Append(analysis_report, [kind |-> "all_match"])
  /\ pc' = "done"
  /\ UNCHANGED <<script, expected_fields, shiftVars, textVars, binVars,
                 differences, mainVars>>

(***************************************************************************)
(* detailed_comparison.py: read_records, parse_record and main             *)
(***************************************************************************)
\* A str is kept as the sequence of its characters.  The texts drawn are all
\* the strings of delimiters and the letter P up to MaxLineLen characters,
\* each bare and with a blank on both sides.
Delimiter == "|"
Blank == " "
RecordChars == {"P", Delimiter}
RecordTexts == UNION {Tuples(RecordChars, n) : n \in 0..MaxLineLen}
Lines == RecordTexts \cup {<<Blank>> \o t \o <<Blank>> : t \in RecordTexts}

\* a text file on disk: its lines, or its whole text when it is read at once
OurFiles ==
  {[exists |-> TRUE, lines |-> ls] :
     ls \in UNION {Tuples(Lines, n) : n \in 0..MaxLines}}
ExpectedFiles == {[exists |-> TRUE, text |-> t] : t \in Lines}

\* str.strip()
RECURSIVE lstrip(_)
lstrip(text) ==
  IF text # << >> /\ Head(text) = Blank THEN lstrip(Tail(text)) ELSE text
RECURSIVE rstrip(_)
rstrip(text) ==
  IF text # << >> /\ text[Len(text)] = Blank
  THEN rstrip(SubSeq(text, 1, Len(text) - 1)) ELSE text
strip(text) == rstrip(lstrip(text))

\* record.split('|'): the fields of record[i..], the first of them being the
\* text before the next delimiter
RECURSIVE split_from(_, _)
split_from(record, i) ==
  IF i > Len(record) THEN << << >> >>
  ELSE LET rest == split_from(record, i + 1)
       IN IF record[i] = Delimiter
          THEN << << >> >> \o rest
          ELSE << <<record[i]>> \o rest[1] >> \o Tail(rest)
\* a split that drops a trailing empty field
split_drop_trailing_empty(record) ==
  LET fields == split_from(record, 1)
  IN IF Len(fields) > 1 /\ fields[Len(fields)] = << >>
     THEN SubSeq(fields, 1, Len(fields) - 1) ELSE fields
split(record) == split_from(record, 1)

\* parse_record: (record_type, fields)
UNKNOWN == <<"U", "N", "K", "N", "O", "W", "N">>
parse_record(record) ==
  LET fields == split(record)
  IN [record_type |-> IF Len(fields) >= 3 THEN fields[3] ELSE UNKNOWN,
      fields |-> fields]

\* read_records: [] for a missing file, else the stripped non-blank lines
RECURSIVE stripped_lines(_)
stripped_lines(lines) ==
  IF lines = << >> THEN << >>
  ELSE (IF strip(Head(lines)) # << >> THEN <<strip(Head(lines))>> ELSE << >>)
       \o stripped_lines(Tail(lines))
read_records(file) ==
  IF file = NoFile THEN << >> ELSE stripped_lines(file.lines)

\* for record in our_records: the first one of type 'P'; None is kept as the
\* falsy empty string, which no record is
RECURSIVE first_primary(_)
first_primary(records) ==
  IF records = << >> THEN << >>
  ELSE IF parse_record(Head(records)).record_type = <<"P">> THEN Head(records)
       ELSE first_primary(Tail(records))

MainIdle ==
  /\ our_file = NoFile /\ expected_p_file = NoFile
  /\ expected_content = << >> /\ our_records = << >>
  /\ our_primary = << >> /\ main_report = << >>

InitMain ==
  /\ script = "detailed_comparison"
  /\ entry = "main"
  /\ pc = "read_expected"
  /\ our_file \in OurFiles \cup {NoFile}
  /\ expected_p_file \in ExpectedFiles \cup {NoFile}
  /\ expected_content = << >> /\ our_records = << >>
  /\ our_primary = << >> /\ main_report = << >>
  /\ our_fields = << >> /\ expected_fields = << >>
  /\ comparison = None
  /\ critical_mismatches = 0
  /\ range_idx = 0
  /\ range_stats = << >>
  /\ range_report = << >>

\* Read expected output
ReadExpected ==
  /\ script = "detailed_comparison" /\ pc = "read_expected"
  /\ IF expected_p_file = NoFile
     THEN /\ main_report' = Append(main_report, [kind |-> "expected_file_not_found"])
          /\ expected_content' = expected_content
          /\ pc' = "done"
     ELSE /\ expected_content' = strip(expected_p_file.text)
          /\ main_report' = main_report
          /\ pc' = "read_our"
  /\ UNCHANGED <<script, expected_fields, textVars, shiftVars, binVars, analysisVars,
                 our_file, expected_p_file, our_records, our_primary>>

\* Read our output
ReadOur ==
  /\ script = "detailed_comparison" /\ pc = "read_our"
  /\ LET records == read_records(our_file)
         not_found == IF our_file = NoFile
                      THEN <<[kind |-> "file_not_found"]>> ELSE << >>
     IN /\ our_records' = records
        /\ IF records = << >>
           THEN /\ main_report' = main_report \o not_found
                                    \o <<[kind |-> "no_records_found"]>>
                /\ pc' = "done"
           ELSE /\ main_report' = main_report \o not_found
                                    \o <<[kind |-> "record_counts", ours |-> Len(records)]>>
                /\ pc' = "find_primary"
  /\ UNCHANGED <<script, expected_fields, textVars, shiftVars, binVars, analysisVars,
                 our_file, expected_p_file, expected_content, our_primary>>

\* Find Primary record in our output
FindPrimary ==
  /\ script = "detailed_comparison" /\ pc = "find_primary"
  /\ our_primary' = first_primary(our_records)
  /\ IF first_primary(our_records) = << >>
     THEN /\ main_report' = Append(main_report, [kind |-> "no_primary_record"])
          /\ pc' = "done"
     ELSE /\ main_report' = main_report
          /\ pc' = "analyze"
  /\ UNCHANGED <<script, expected_fields, textVars, shiftVars, binVars, analysisVars,
                 our_file, expected_p_file, expected_content, our_records>>

\* analyze_primary_record(our_primary, expected_content): the two parse_record
\* calls; compare_fields and the analyses follow
ParseRecords ==
  /\ script = "detailed_comparison" /\ pc = "analyze"
  /\ our_fields' = parse_record(our_primary).fields
  /\ expected_fields' = parse_record(expected_content).fields
  /\ main_report' = Append(main_report,
       [kind |-> "primary_record_analysis",
        our_type |-> parse_record(our_primary).record_type,
        expected_type |-> parse_record(expected_content).record_type])
  /\ pc' = "compare_fields"
  /\ UNCHANGED <<script, entry, comparison, critical_mismatches, range_idx,
                 range_stats, range_report, shiftVars, binVars, analysisVars,
                 our_file, expected_p_file, expected_content, our_records,
                 our_primary>>

\* for i in range(9, min(15, len(our_fields), len(expected_fields))): one row
address_rows(our, exp) ==
  LET stop == Min3(15, Len(our), Len(exp))
  IN [k \in 1..Max2(0, stop - 9) |->
        [field |-> k + 9, ok |-> our[k + 9] = exp[k + 9]]]

\* SUMMARY, Critical Mismatches (first 20), Address Field Analysis
Summary ==
  /\ script = "detailed_comparison" /\ pc = "summary"
  /\ main_report' = main_report
       \o <<[kind |-> "summary",
             our_fields |-> comparison.our_field_count,
             expected_fields |-> comparison.expected_field_count,
             matches |-> comparison.matches,
             mismatched |-> Len(comparison.mismatches),
             missing |-> Len(comparison.missing_fields),
             extra |-> Len(comparison.extra_fields)]>>
       \o (IF comparison.expected_field_count > 0
           THEN <<[kind |-> "match_percentage",
                   pct |-> Pct(comparison.matches, comparison.expected_field_count)]>>
           ELSE << >>)
       \o (IF comparison.mismatches # << >>
           THEN <<[kind |-> "critical_mismatches",
                   shown |-> SubSeq(comparison.mismatches, 1,
                                    Min2(20, Len(comparison.mismatches)))]>>
           ELSE << >>)
       \o <<[kind |-> "address_fields",
             rows |-> address_rows(our_fields, expected_fields)]>>
  /\ pc' = "done"
  /\ UNCHANGED <<script, expected_fields, textVars, shiftVars, binVars, analysisVars,
                 our_file, expected_p_file, expected_content, our_records,
                 our_primary>>

(***************************************************************************)
(* Specifications, one per script                                          *)
(***************************************************************************)
NextText == CompareFields \/ CriticalFields \/ RangeStep \/ ReturnComparison
NextShift == FindFirstDiff \/ ProbeStep \/ ProbeEnd
NextBinary == ReadFiles \/ FieldStep \/ OverallAccuracy \/ RecordStructure
NextAnalysis == CompareAllFields \/ ReportDifferences
NextMain ==
  \/ ReadExpected \/ ReadOur \/ FindPrimary \/ ParseRecords
  \/ NextText \/ Summary

InitTextOnly == InitText /\ ShiftIdle /\ BinIdle /\ AnalysisIdle /\ MainIdle
InitShiftOnly == InitShift /\ TextIdle /\ BinIdle /\ AnalysisIdle /\ MainIdle
InitBinaryOnly ==
  /\ InitBinary /\ TextIdle /\ ShiftIdle /\ expected_fields = << >>
  /\ AnalysisIdle /\ MainIdle
InitAnalysisOnly == InitAnalysis /\ TextIdle /\ BinIdle /\ MainIdle
InitMainOnly == InitMain /\ ShiftIdle /\ BinIdle /\ AnalysisIdle
\* a run of either script that loads two record sources
InitSources == InitMainOnly \/ InitBinaryOnly

SpecText == InitTextOnly /\ [][NextText]_vars
SpecShift == InitShiftOnly /\ [][NextShift]_vars
SpecBinary == InitBinaryOnly /\ [][NextBinary]_vars
SpecAnalysis == InitAnalysisOnly /\ [][NextAnalysis]_vars
SpecMain == InitMainOnly /\ [][NextMain]_vars
SpecSources == InitSources /\ [][NextMain \/ NextBinary]_vars

Init ==
  \/ InitTextOnly \/ InitShiftOnly \/ InitBinaryOnly \/ InitAnalysisOnly
  \/ InitMainOnly
Next == NextMain \/ NextShift \/ NextBinary \/ NextAnalysis
Spec == Init /\ [][Next]_vars

(***************************************************************************)
(* Properties of compare_fields (SpecText)                                 *)
(***************************************************************************)
\* compare_fields has returned
Compared == script = "detailed_comparison" /\ pc \in {"critical", "done"}

\* C1: the result of compare_fields satisfies the count invariant:
\* matches + len(mismatches) = min(len(A), len(B)),
\* len(missing_fields) = max(0, len(B) - len(A)) and
\* len(extra_fields) = max(0, len(A) - len(B)).
C1_CountInvariant ==
  Compared =>
    /\ comparison.matches + Len(comparison.mismatches)
         = Min2(Len(our_fields), Len(expected_fields))
    /\ Len(comparison.missing_fields)
         = Max2(0, Len(expected_fields) - Len(our_fields))
    /\ Len(comparison.extra_fields)
         = Max2(0, Len(our_fields) - Len(expected_fields))

C1_Witness ==
  /\ Compared
  /\ comparison.matches > 0
  /\ Len(comparison.mismatches) > 0
  /\ Len(comparison.missing_fields) > 1

\* C2: the mismatches list is exactly, in strictly increasing position order,
\* the entries (i+1, A[i], B[i]) of every index i below min(len(A), len(B))
\* with A[i] # B[i]; equal positions and positions beyond the shorter list
\* do not appear.
C2_MismatchesExact ==
  Compared =>
    LET m == comparison.mismatches
        n == Min2(Len(our_fields), Len(expected_fields))
    IN /\ \A k \in 1..Len(m) :
            /\ m[k].field_index \in 1..n
            /\ our_fields[m[k].field_index] # expected_fields[m[k].field_index]
            /\ m[k].our_value = our_fields[m[k].field_index]
            /\ m[k].expected_value = expected_fields[m[k].field_index]
       /\ \A k \in 1..(Len(m) - 1) : m[k].field_index < m[k + 1].field_index
       \* the entries are at distinct differing positions, so they are all of
       \* them when they are as many
       /\ Len(m) = Cardinality({p \in 1..n : our_fields[p] # expected_fields[p]})

C2_Witness ==
  /\ Compared
  /\ Len(comparison.mismatches) >= 2
  /\ comparison.matches >= 1
  /\ Len(our_fields) > Len(expected_fields)

\* C3: compare_fields(A, B) and compare_fields(B, A) have the same mismatch
\* positions with the actual and expected values swapped, and the same match
\* count.
C3_SwapSymmetry ==
  Compared =>
    LET ab == comparison.mismatches
        r == compare_fields(expected_fields, our_fields, "P")
        ba == r.mismatches
    IN /\ Len(ab) = Len(ba)
       /\ \A k \in 1..Len(ab) :
            /\ k <= Len(ba)
            /\ ab[k].field_index = ba[k].field_index
            /\ ab[k].our_value = ba[k].expected_value
            /\ ab[k].expected_value = ba[k].our_value
       /\ r.matches = comparison.matches

C3_Witness ==
  /\ Compared
  /\ Len(comparison.mismatches) >= 1
  /\ comparison.matches >= 1
  /\ Len(our_fields) # Len(expected_fields)

(***************************************************************************)
(* Properties of the range analysis of analyze_primary_record (SpecText)   *)
(***************************************************************************)
\* the ordinals of [lo, hi] that exist in both field lists
Overlap(lo, hi) ==
  {p \in lo..hi : p <= Len(our_fields) /\ p <= Len(expected_fields)}

\* C4 as claimed: every range analysed yields a percentage in [0, 100] with range
\* matches never above the total compared, and a range with no position in
\* both lists is reported with accuracy exactly 0 instead of being omitted.
C4_EveryRangeReported ==
  \A k \in 1..Len(range_stats) :
    LET s == range_stats[k]
    IN /\ s.range_matches <= s.total_range
       /\ \E j \in 1..Len(range_report) :
            LET l == range_report[j]
            IN /\ l.start = s.start /\ l.end = s.end
               /\ l.match_pct.den > 0
               /\ 0 <= l.match_pct.num
               /\ l.match_pct.num <= 100 * l.match_pct.den
               /\ (Overlap(s.start, s.end) = {} => l.match_pct.num = 0)

\* C4 amended: every range line reported carries a percentage in [0, 100],
\* its range matches never above its positive total compared; a range with no
\* position in both lists gets no line at all (it is omitted, nothing fails
\* and no accuracy is reported for it), and every other range gets its line.
C4_ReportedRangesOnly ==
  \A k \in 1..Len(range_stats) :
    LET s == range_stats[k]
        lines == {j \in 1..Len(range_report) : range_report[j].start = s.start}
    IN IF Overlap(s.start, s.end) = {}
       THEN /\ lines = {}
            /\ s.range_matches = 0
       ELSE /\ lines = {Len(range_report)}
            /\ LET l == range_report[Len(range_report)]
               IN /\ l.end = s.end
                  /\ l.range_matches = s.range_matches
                  /\ l.total_range = s.total_range
                  /\ l.total_range > 0
                  /\ l.range_matches <= l.total_range
                  /\ l.match_pct = [num |-> 100 * l.range_matches, den |-> l.total_range]
                  /\ 0 <= l.match_pct.num
                  /\ l.match_pct.num <= 100 * l.match_pct.den

C4_Witness ==
  /\ script = "detailed_comparison" /\ pc = "done"
  /\ Len(range_report) = 1
  /\ range_report[1].range_matches > 0
  /\ range_report[1].range_matches < range_report[1].total_range
  /\ Len(range_stats) = 1
  /\ Overlap(range_stats[1].start, range_stats[1].end) = {}

\* C5 as claimed: each range is the half-open interval [start, end): the
\* positions compared are exactly the ordinals p, start <= p < end, present
\* in both lists, and total_range is their number.
C5_HalfOpenRange ==
  \A k \in 1..Len(range_stats) :
    LET s == range_stats[k]
        want == Overlap(s.start, s.end - 1)
    IN /\ {s.compared[i] : i \in 1..Len(s.compared)} = want
       /\ s.total_range = Cardinality(want)

\* C5 amended: each range is the closed interval [start, end]: the positions
\* compared are exactly the ordinals p, start <= p <= end, present in both
\* lists, each compared once; total_range is their number when there is one,
\* and is at most 0 when there is none.
C5_ClosedRange ==
  \A k \in 1..Len(range_stats) :
    LET s == range_stats[k]
        want == Overlap(s.start, s.end)
    IN /\ {s.compared[i] : i \in 1..Len(s.compared)} = want
       /\ Len(s.compared) = Cardinality(want)
       /\ s.range_matches + s.range_mismatches = Cardinality(want)
       /\ (want # {} => s.total_range = Cardinality(want))
       /\ (want = {} => s.total_range <= 0)

C5_Witness ==
  \E k \in 1..Len(range_stats) :
    LET s == range_stats[k]
    IN /\ s.start = 501
       /\ \E i \in 1..Len(s.compared) : s.compared[i] = s.end
       /\ s.range_mismatches > 0 /\ s.range_matches > 0

(***************************************************************************)
(* Properties of find_shift_point (SpecShift)                              *)
(***************************************************************************)
\* the nonzero offsets of the probe window at which the generated field of
\* the first difference equals an expected field
ShiftCandidates ==
  {o \in (-3..3) \ {0} :
     /\ 0 <= first_diff - 1 + o
     /\ first_diff - 1 + o < Len(expected_fields)
     /\ generated_fields[first_diff] = expected_fields[first_diff + o]}

ShiftLines == SelectSeq(shift_report, LAMBDA l : l.kind = "shift")

\* C6 as claimed: the result of shift detection is the smallest nonzero offset o in
\* -3..3 with d+o a valid index of expected and actual[d] = expected[d+o],
\* only this first candidate being reported; nothing is reported exactly when
\* no such offset exists; offset 0 is never reported.
C6_OnlyFirstCandidate ==
  (script = "shift_analysis" /\ pc = "done" /\ first_diff # NoDiff) =>
    /\ \A i \in 1..Len(ShiftLines) : ShiftLines[i].offset # 0
    /\ IF ShiftCandidates = {}
       THEN ShiftLines = << >>
       ELSE /\ Len(ShiftLines) = 1
            /\ \A o \in ShiftCandidates : ShiftLines[1].offset <= o
            /\ ShiftLines[1].offset \in ShiftCandidates

\* C6 amended: shift detection reports every nonzero offset o in -3..3 with
\* d+o a valid index of expected and actual[d] = expected[d+o], in increasing
\* order, so the first one reported is the smallest; nothing is reported
\* exactly when no such offset exists; offset 0 is never reported.
C6_AllCandidatesInOrder ==
  (script = "shift_analysis" /\ pc = "done" /\ first_diff # NoDiff) =>
    /\ \A i \in 1..Len(ShiftLines) :
         /\ ShiftLines[i].offset # 0
         /\ ShiftLines[i].offset \in ShiftCandidates
         /\ ShiftLines[i].generated_field = first_diff
         /\ ShiftLines[i].expected_field = first_diff + ShiftLines[i].offset
    /\ \A i \in 1..(Len(ShiftLines) - 1) :
         ShiftLines[i].offset < ShiftLines[i + 1].offset
    /\ \A o \in ShiftCandidates :
         \E i \in 1..Len(ShiftLines) : ShiftLines[i].offset = o
    /\ (ShiftLines = << >> <=> ShiftCandidates = {})
    /\ (ShiftCandidates # {} =>
          \A o \in ShiftCandidates : ShiftLines[1].offset <= o)

C6_Witness ==
  /\ script = "shift_analysis" /\ pc = "done" /\ first_diff # NoDiff
  /\ Cardinality(ShiftCandidates) >= 2
  /\ \E o \in ShiftCandidates : o < 0

(***************************************************************************)
(* Properties of analyze_binary_accuracy (SpecBinary)                      *)
(***************************************************************************)
\* both files were read
DataRead ==
  script = "field_accuracy_analysis" /\ pc \in {"fields", "structure"}

\* the run went through to the end of the function
Completed ==
  /\ script = "field_accuracy_analysis" /\ pc = "done"
  /\ Len(bin_report) > 1

\* the window taken by the step from this state lies inside both buffers
WindowInBoth ==
  /\ key_fields[field_idx][1] < actual_data.len
  /\ key_fields[field_idx][1] < expected_data.len

\* C7: a window is processed if and only if start < len(actual) and
\* start < len(expected); a window starting at or beyond either length is
\* skipped and adds nothing to the per-window results or the running totals.
C7_WindowProcessedIffInBounds ==
  [][(DataRead /\ pc = "fields" /\ field_idx <= Len(key_fields)
        /\ field_idx' = field_idx + 1)
       => IF WindowInBoth
          THEN /\ Len(field_report') = Len(field_report) + 1
               /\ field_report'[Len(field_report')].start = key_fields[field_idx][1]
               /\ field_report'[Len(field_report')].end = key_fields[field_idx][2]
               /\ \A k \in 1..Len(field_report) : field_report'[k] = field_report[k]
          ELSE /\ field_report' = field_report
               /\ total_analyzed' = total_analyzed
               /\ total_matching' = total_matching]_vars

C7_Witness ==
  /\ DataRead /\ pc = "structure"
  /\ actual_data.len > expected_data.len
  /\ Len(field_report) >= 2
  /\ Len(field_report) < Len(key_fields)
  /\ key_fields[Len(field_report) + 1][1] < actual_data.len

\* C8: for every processed window, compared_length is the length of the
\* shorter of the slices [start, min(end, len(buffer))) and matches is the
\* number of offsets i below it with actual[start+i] = expected[start+i];
\* so 0 <= matches <= compared_length, the window is a full match only when
\* matches = compared_length > 0, and the accuracy is 0 when
\* compared_length = 0.
C8_WindowCounts ==
  (DataRead \/ Completed) =>
    \A k \in 1..Len(field_report) :
      LET r == field_report[k]
          actual_len == Max2(0, Min2(r.end, actual_data.len) - r.start)
          expected_len == Max2(0, Min2(r.end, expected_data.len) - r.start)
          equal == {i \in 0..(r.field_length - 1) :
                      ByteAt(actual_data, r.start + i) = ByteAt(expected_data, r.start + i)}
      IN /\ r.field_length = Min2(actual_len, expected_len)
         /\ r.matches = Cardinality(equal)
         /\ 0 <= r.matches /\ r.matches <= r.field_length
         /\ (r.status = "MATCH" => r.matches = r.field_length /\ r.field_length > 0)
         /\ (r.matches = r.field_length /\ r.field_length > 0 => r.status = "MATCH")
         /\ (r.field_length = 0 => r.accuracy.num = 0)
         /\ (r.field_length > 0 => r.accuracy = [num |-> 100 * r.matches, den |-> r.field_length])

C8_Witness ==
  /\ Completed
  /\ \E k \in 1..Len(field_report) :
       /\ field_report[k].matches > 0
       /\ field_report[k].matches < field_report[k].field_length
  /\ \E k \in 1..Len(field_report) :
       /\ field_report[k].status = "MATCH"
       /\ field_report[k].field_length < field_report[k].end - field_report[k].start

RECURSIVE SumOf(_, _)
SumOf(report, field) ==
  IF report = << >> THEN 0
  ELSE report[1][field] + SumOf(Tail(report), field)

\* C9: after any prefix of the window list total_matching is the sum of
\* matches and total_analyzed the sum of compared_length over the processed
\* windows, so total_matching <= total_analyzed; the overall accuracy is
\* computed from the two sums and is 0 when total_analyzed = 0.
C9_RunningTotals ==
  (DataRead \/ Completed) =>
    /\ total_matching = SumOf(field_report, "matches")
    /\ total_analyzed = SumOf(field_report, "field_length")
    /\ total_matching <= total_analyzed
    /\ (pc # "fields" =>
          IF total_analyzed = 0
          THEN overall_accuracy.num = 0
          ELSE overall_accuracy = [num |-> 100 * total_matching, den |-> total_analyzed])

C9_Witness ==
  /\ Completed
  /\ Len(field_report) >= 3
  /\ 0 < total_matching /\ total_matching < total_analyzed
  /\ \E k \in 1..Len(field_report) : field_report[k].matches = field_report[k].field_length

\* C10: actual_record_count = floor(len(actual) / expected_record_size) and
\* the derived size = floor(len(actual) / actual_record_count), reported as
\* 0 when the count is 0; a buffer of exactly expected_count *
\* expected_record_size bytes yields the expected count and size.
C10_RecordStructure ==
  Completed =>
    /\ actual_records * expected_record_size <= actual_data.len
    /\ actual_data.len < (actual_records + 1) * expected_record_size
    /\ (actual_records > 0 =>
          /\ actual_record_size * actual_records <= actual_data.len
          /\ actual_data.len < (actual_record_size + 1) * actual_records)
    /\ (actual_records = 0 => actual_record_size = 0)
    /\ (actual_data.len = expected_records * expected_record_size =>
          /\ actual_records = expected_records
          /\ actual_record_size = expected_record_size)

C10_Witness ==
  /\ Completed
  /\ actual_data.len = 10000
  /\ actual_records = 5 /\ actual_record_size = 2000

(***************************************************************************)
(* Further properties of find_shift_point (SpecShift)                      *)
(***************************************************************************)
\* position p, 1-based, holds different things in the two sequences: a
\* different value, or a field on one side only
DiffersAt(p) ==
  IF p <= Len(generated_fields) /\ p <= Len(expected_fields)
  THEN generated_fields[p] # expected_fields[p]
  ELSE p <= Len(generated_fields) \/ p <= Len(expected_fields)

DifferingPositions ==
  {p \in 1..Max2(Len(generated_fields), Len(expected_fields)) : DiffersAt(p)}

\* C14: find_shift_point reports ALL FIELDS MATCH PERFECTLY only when the
\* generated and the expected sequence are identical (same length, equal
\* value at every position); whenever they differ in any way a first
\* difference is reported, at the smallest 1-based position where they differ.
C14_AllMatchOnlyWhenIdentical ==
  (script = "shift_analysis" /\ pc # "first_diff") =>
    /\ (shift_report[1].kind = "all_match" => generated_fields = expected_fields)
    /\ (generated_fields # expected_fields =>
          /\ shift_report[1].kind = "first_difference"
          /\ shift_report[1].field \in DifferingPositions
          /\ \A p \in DifferingPositions : shift_report[1].field <= p)

(***************************************************************************)
(* Further properties of analyze_binary_accuracy (SpecBinary)              *)
(***************************************************************************)
\* C15: whenever the record structure check reports a perfect match
\* (actual_records = expected_records and actual_record_size =
\* expected_record_size), the actual buffer is exactly expected_records *
\* expected_record_size bytes long.
C15_PerfectStructureExactLength ==
  (Completed /\ \E k \in 1..Len(bin_report) :
                  bin_report[k].kind = "record_structure_perfect") =>
    actual_data.len = expected_records * expected_record_size

(***************************************************************************)
(* field_analysis against compare_fields (SpecAnalysis)                    *)
(***************************************************************************)
\* C13: for every pair of field sequences the number of differences
\* field_analysis collects for the record equals len(mismatches) +
\* len(missing_fields) + len(extra_fields) of compare_fields on the same
\* pair: the two routines agree on how many positions differ, positions
\* present on one side only included.
C13_SameDifferenceCount ==
  (script = "field_analysis" /\ pc # "compare_all") =>
    LET c == compare_fields(generated_fields, expected_fields, "P")
    IN Len(differences)
         = Len(c.mismatches) + Len(c.missing_fields) + Len(c.extra_fields)

(***************************************************************************)
(* Properties of parse_record and of the loading of the sources            *)
(* (SpecMain, SpecSources)                                                 *)
(***************************************************************************)
\* analyze_primary_record has parsed the two records of this run of main
Parsed ==
  script = "detailed_comparison" /\ entry = "main" /\ our_fields # << >>

CountDelimiters(text) == Cardinality({i \in 1..Len(text) : text[i] = Delimiter})

\* '|'.join(fields)
RECURSIVE join(_)
join(fields) ==
  IF fields = << >> THEN << >>
  ELSE IF Len(fields) = 1 THEN fields[1]
       ELSE fields[1] \o <<Delimiter>> \o join(Tail(fields))

\* fields is record segmented on the delimiter
SegmentedAs(record, fields) ==
  /\ Len(fields) = CountDelimiters(record) + 1
  /\ \A k \in 1..Len(fields) : CountDelimiters(fields[k]) = 0
  /\ join(fields) = record
  \* the field between two adjacent delimiters, before a leading one and
  \* after a trailing one is empty
  /\ \A i \in 1..Len(record) :
       record[i] = Delimiter =>
         LET k == CountDelimiters(SubSeq(record, 1, i))
         IN /\ (i = 1 => fields[k] = << >>)
            /\ (i = Len(record) => fields[k + 1] = << >>)
            /\ (i < Len(record) /\ record[i + 1] = Delimiter => fields[k + 1] = << >>)

\* C12: segmenting a record string on '|' never fails and yields exactly
\* (number of '|' + 1) fields in order, with an empty field for every pair of
\* adjacent delimiters and for a leading or trailing delimiter; joining the
\* fields with '|' gives back the record string.
C12_SplitJoinRoundTrip ==
  Parsed =>
    /\ SegmentedAs(our_primary, our_fields)
    /\ SegmentedAs(expected_content, expected_fields)

C12_Witness ==
  /\ Parsed
  /\ expected_content = <<"P", "|", "|">>
  /\ expected_fields = << <<"P">>, << >>, << >> >>
  /\ our_primary = <<"|", "|", "P">>
  /\ our_fields = << << >>, << >>, <<"P">> >>

\* a record source of the run is missing or empty
TextSourceUnavailable ==
  \/ our_file = NoFile
  \/ expected_p_file = NoFile
  \/ (our_file # NoFile /\ our_file.lines = << >>)
  \/ (expected_p_file # NoFile /\ expected_p_file.text = << >>)

BinarySourceUnavailable ==
  \/ actual_file = NoFile
  \/ expected_file = NoFile
  \/ (actual_file # NoFile /\ actual_file.len = 0)
  \/ (expected_file # NoFile /\ expected_file.len = 0)

UnavailableReported(report) ==
  \E k \in 1..Len(report) :
    report[k].kind \in {"expected_file_not_found", "file_not_found",
                        "no_records_found"}

\* C11: in every run of detailed_comparison.main and of
\* analyze_binary_accuracy, if either record source is missing or empty the
\* run reports the source as unavailable and ends before any field or byte
\* comparison is performed; no comparison step ever follows a missing or
\* empty source.
C11_UnavailableSourceEndsRun ==
  /\ (script = "detailed_comparison" /\ entry = "main" /\ TextSourceUnavailable) =>
       \* compare_fields is not reached, and the run ends with the report
       /\ pc \notin {"critical", "ranges", "summary"}
       /\ range_report = << >>
       /\ (pc = "done" => our_fields = << >> /\ UnavailableReported(main_report))
  /\ (script = "field_accuracy_analysis" /\ BinarySourceUnavailable) =>
       \* no window is compared, and the run ends with the report
       /\ field_report = << >>
       /\ (pc = "done" => UnavailableReported(bin_report))

====
